---- MODULE Spec2Model ----
(***************************************************************************)
(* A model of the tween composition engine of src/src/lib.rs.              *)
(*                                                                         *)
(* Time is counted in integer ticks (one tick is any fixed fraction of a   *)
(* second, e.g. 0.5 s), so every f64 comparison and sum of the source is   *)
(* exact here.  Only the linear easing curve is used by the nodes of this  *)
(* model; accessed values are multiples of 1/Span of the tweened range, so *)
(* lerp is exact for every duration that divides Span.                     *)
(*                                                                         *)
(* All tweens of one tree write the same accessed cell `val`; all Exec     *)
(* nodes call the same callback, which increments `calls`.                 *)
(***************************************************************************)
EXTENDS Integers, Sequences, FiniteSets, TLC

\* ------------------------------------------------------------------ bounds
\* Longest duration of a leaf, in ticks.
MaxDur == 2
\* Largest delta a driver passes to one update call, in ticks.
MaxDelta == 2
\* Number of driver calls (update or reset) explored after construction.
MaxSteps == 4
\* Fuel of the while loops of Sequence::update and Repeat::update: a loop
\* that needs more iterations than this is reported as fault "diverge".
MaxIter == 12

\* The tweened range; divisible by every duration up to 5.
Span == 3 * 4 * 5

\* std::f64::INFINITY: larger than every finite time of the model, and
\* absorbing under FAdd / FSub.
Infinity == 1000000

\* The f64 NaN that 0.0 / 0.0 yields: a value outside the number line of
\* the model.  -Infinity and Infinity stand for the two infinite f64 values.
NaN == -2000000

IsFinite(v) == v # NaN /\ -Infinity < v /\ v < Infinity

Min(a, b) == IF a <= b THEN a ELSE b

FAdd(a, b) == IF a >= Infinity \/ b >= Infinity THEN Infinity ELSE a + b

FSub(a, b) == IF a >= Infinity THEN Infinity ELSE a - b

\* ------------------------------------------------------------ ease.rs
\* The easing catalog, computed over exact rationals <<numerator,
\* denominator>> in lowest terms with a positive denominator.  The f64
\* literals of the source (0.5, 2.75, 7.5625, 1.70158, ...) are the
\* rationals they denote.
Grid == 4

Abs(i) == IF i < 0 THEN -i ELSE i

RECURSIVE GCD(_, _)
GCD(a, b) == IF b = 0 THEN a ELSE GCD(b, a % b)

Norm(n, d) ==
    LET g == GCD(Abs(n), d) IN <<n \div g, d \div g>>

Q(n, d) == Norm(n, d)

\* What stands for a value that is no rational number.
Irrational == <<0, 0>>

RNeg(x) == <<-x[1], x[2]>>

RAdd(x, y) ==
    IF x = Irrational \/ y = Irrational THEN Irrational
    ELSE LET g == GCD(x[2], y[2])
         IN Norm(x[1] * (y[2] \div g) + y[1] * (x[2] \div g),
                 (x[2] \div g) * y[2])

RSub(x, y) == RAdd(x, RNeg(y))

RMul(x, y) ==
    IF x = Irrational \/ y = Irrational THEN Irrational
    ELSE LET g1 == GCD(Abs(x[1]), y[2])
             g2 == GCD(Abs(y[1]), x[2])
         IN Norm((x[1] \div g1) * (y[1] \div g2),
                 (x[2] \div g2) * (y[2] \div g1))

\* x / y for y > 0
RDiv(x, y) == RMul(x, <<y[2], y[1]>>)

RLt(x, y) == x[1] * y[2] < y[1] * x[2]

\* f64::sqrt, where the root is rational
Sqrt(x) ==
    IF x # Irrational /\ x[1] >= 0 /\ \E n \in 0..x[1], d \in 1..x[2] : <<n * n, d * d>> = x
    THEN CHOOSE r \in {<<n, d>> : n \in 0..x[1], d \in 1..x[2]} :
            <<r[1] * r[1], r[2] * r[2]>> = x
    ELSE Irrational

\* 2.0f64.powf(x), where x is an integer
Pow2(x) ==
    IF x[2] # 1 THEN Irrational
    ELSE IF x[1] >= 0 THEN <<2 ^ x[1], 1>>
    ELSE <<1, 2 ^ (-x[1])>>

\* f64::cos and f64::sin of an angle of x quarter turns (x * FRAC_PI_2),
\* where x is an integer
Cos(x) ==
    IF x[2] # 1 THEN Irrational
    ELSE CASE x[1] % 4 = 0 -> Q(1, 1)
           [] x[1] % 4 = 2 -> Q(-1, 1)
           [] OTHER -> Q(0, 1)

Sin(x) ==
    IF x[2] # 1 THEN Irrational
    ELSE CASE x[1] % 4 = 1 -> Q(1, 1)
           [] x[1] % 4 = 3 -> Q(-1, 1)
           [] OTHER -> Q(0, 1)

\* impl Ease for LinearEase
LinearEase_ease_in(t) == t

LinearEase_ease_out(t) == t

LinearEase_ease_in_out(t) == t

\* impl Ease for QuadEase
QuadEase_ease_in(t) == RMul(t, t)

QuadEase_ease_out(t) == RMul(RNeg(t), RSub(t, Q(2, 1)))

\* A QuadEase::ease_in_out whose second half forgets the "- 1.".
QuadEase_ease_in_out_Slip(t) ==
    LET s == RMul(t, Q(2, 1))
    IN IF RLt(s, Q(1, 1))
       THEN RMul(RMul(Q(1, 2), s), s)
       ELSE LET u == RSub(s, Q(1, 1))
            IN RMul(Q(-1, 2), RMul(u, RSub(u, Q(2, 1))))

QuadEase_ease_in_out(t) ==
    LET s == RMul(t, Q(2, 1))
    IN IF RLt(s, Q(1, 1))
       THEN RMul(RMul(Q(1, 2), s), s)
       ELSE LET u == RSub(s, Q(1, 1))
            IN RMul(Q(-1, 2),
                    RSub(RMul(u, RSub(u, Q(2, 1))), Q(1, 1)))

\* impl Ease for CubicEase
CubicEase_ease_in(t) == RMul(RMul(t, t), t)

CubicEase_ease_out(t) ==
    LET s == RSub(t, Q(1, 1))
    IN RAdd(RMul(RMul(s, s), s), Q(1, 1))

CubicEase_ease_in_out(t) ==
    LET s == RMul(t, Q(2, 1))
    IN IF RLt(s, Q(1, 1))
       THEN RMul(RMul(RMul(Q(1, 2), s), s), s)
       ELSE LET u == RSub(s, Q(2, 1))
            IN RMul(Q(1, 2), RAdd(RMul(RMul(u, u), u), Q(2, 1)))

\* impl Ease for QuartEase
QuartEase_ease_in(t) == RMul(RMul(RMul(t, t), t), t)

QuartEase_ease_out(t) ==
    LET s == RSub(t, Q(1, 1))
    IN RNeg(RSub(RMul(RMul(RMul(s, s), s), s), Q(1, 1)))

QuartEase_ease_in_out(t) ==
    LET s == RMul(t, Q(2, 1))
    IN IF RLt(s, Q(1, 1))
       THEN RMul(RMul(RMul(RMul(Q(1, 2), s), s), s), s)
       ELSE LET u == RSub(s, Q(2, 1))
            IN RMul(Q(-1, 2),
                    RSub(RMul(RMul(RMul(u, u), u), u), Q(2, 1)))

\* impl Ease for QuintEase
QuintEase_ease_in(t) == RMul(RMul(RMul(RMul(t, t), t), t), t)

QuintEase_ease_out(t) ==
    LET s == RSub(t, Q(1, 1))
    IN RAdd(RMul(RMul(RMul(RMul(s, s), s), s), s), Q(1, 1))

QuintEase_ease_in_out(t) ==
    LET s == RMul(t, Q(2, 1))
    IN IF RLt(s, Q(1, 1))
       THEN RMul(RMul(RMul(RMul(RMul(Q(1, 2), s), s), s), s), s)
       ELSE LET u == RSub(s, Q(2, 1))
            IN RMul(Q(1, 2),
                    RAdd(RMul(RMul(RMul(RMul(u, u), u), u), u), Q(2, 1)))

\* impl Ease for SineEase: t * FRAC_PI_2 is t quarter turns, PI * t is 2 t
SineEase_ease_in(t) == RAdd(RNeg(Cos(t)), Q(1, 1))

SineEase_ease_out(t) == Sin(t)

SineEase_ease_in_out(t) ==
    RMul(Q(-1, 2), RSub(Cos(RMul(Q(2, 1), t)), Q(1, 1)))

\* impl Ease for CircEase
CircEase_ease_in(t) ==
    RAdd(RNeg(Sqrt(RSub(Q(1, 1), RMul(t, t)))), Q(1, 1))

CircEase_ease_out(t) ==
    LET s == RSub(t, Q(1, 1))
    IN Sqrt(RSub(Q(1, 1), RMul(s, s)))

CircEase_ease_in_out(t) ==
    LET s == RMul(t, Q(2, 1))
    IN IF RLt(s, Q(1, 1))
       THEN RMul(Q(-1, 2),
                 RSub(Sqrt(RSub(Q(1, 1), RMul(s, s))), Q(1, 1)))
       ELSE LET u == RSub(s, Q(2, 1))
            IN RMul(Q(1, 2),
                    RAdd(Sqrt(RSub(Q(1, 1), RMul(u, u))), Q(1, 1)))

\* impl Ease for BounceEase
BounceEase_ease_out(t) ==
    IF RLt(t, RDiv(Q(1, 1), Q(11, 4)))
    THEN RMul(RMul(Q(121, 16), t), t)
    ELSE IF RLt(t, RDiv(Q(2, 1), Q(11, 4)))
    THEN LET s == RSub(t, RDiv(Q(3, 2), Q(11, 4)))
         IN RAdd(RMul(RMul(Q(121, 16), s), s), Q(3, 4))
    ELSE IF RLt(t, RDiv(Q(5, 2), Q(11, 4)))
    THEN LET s == RSub(t, RDiv(Q(9, 4), Q(11, 4)))
         IN RAdd(RMul(RMul(Q(121, 16), s), s), Q(15, 16))
    ELSE LET s == RSub(t, RDiv(Q(21, 8), Q(11, 4)))
         IN RAdd(RMul(RMul(Q(121, 16), s), s), Q(63, 64))

BounceEase_ease_in(t) ==
    RSub(Q(1, 1), BounceEase_ease_out(RSub(Q(1, 1), t)))

BounceEase_ease_in_out(t) ==
    IF RLt(t, Q(1, 2))
    THEN RMul(BounceEase_ease_in(RMul(t, Q(2, 1))), Q(1, 2))
    ELSE RAdd(RMul(BounceEase_ease_out(RSub(RMul(t, Q(2, 1)), Q(1, 1))),
                   Q(1, 2)),
              Q(1, 2))

\* impl Ease for ElasticEase, with a and p the NAN that elastic() stores:
\* a = 1., p = 0.3 (0.3 * 1.5 in ease_in_out), s = p / 4.  An angle of
\* (t - s) * (2. * PI) / p is (t - s) * 4 / p quarter turns.
ElasticEase_ease_in(t) ==
    LET p == Q(3, 10)
        a == Q(1, 1)
    IN IF t = Q(0, 1) THEN Q(0, 1)
       ELSE IF t = Q(1, 1) THEN Q(1, 1)
       ELSE LET s == RDiv(p, Q(4, 1))
                u == RSub(t, Q(1, 1))
            IN RNeg(RMul(RMul(a, Pow2(RMul(Q(10, 1), u))),
                         Sin(RDiv(RMul(RSub(u, s), Q(4, 1)), p))))

ElasticEase_ease_out(t) ==
    LET p == Q(3, 10)
        a == Q(1, 1)
    IN IF t = Q(0, 1) THEN Q(0, 1)
       ELSE IF t = Q(1, 1) THEN Q(1, 1)
       ELSE LET s == RDiv(p, Q(4, 1))
            IN RAdd(RMul(RMul(a, Pow2(RMul(Q(-10, 1), t))),
                         Sin(RDiv(RMul(RSub(t, s), Q(4, 1)), p))),
                    Q(1, 1))

ElasticEase_ease_in_out(t) ==
    LET p  == RMul(Q(3, 10), Q(3, 2))
        a  == Q(1, 1)
        t2 == RMul(t, Q(2, 1))
    IN IF t = Q(0, 1) THEN Q(0, 1)
       ELSE IF t2 = Q(2, 1) THEN Q(1, 1)
       ELSE LET s == RDiv(p, Q(4, 1))
                u == RSub(t2, Q(1, 1))
            IN IF RLt(t2, Q(1, 1))
               THEN RMul(Q(-1, 2),
                         RMul(RMul(a, Pow2(RMul(Q(10, 1), u))),
                              Sin(RDiv(RMul(RSub(u, s), Q(4, 1)), p))))
               ELSE RAdd(RMul(RMul(RMul(a, Pow2(RMul(Q(-10, 1), u))),
                                   Sin(RDiv(RMul(RSub(u, s), Q(4, 1)), p))),
                              Q(1, 2)),
                         Q(1, 1))

\* impl Ease for BackEase, with the s that back() stores
BackS == Q(170158, 100000)

BackEase_ease_in(t) ==
    LET s == BackS
    IN RMul(RMul(t, t), RSub(RMul(RAdd(s, Q(1, 1)), t), s))

BackEase_ease_out(t) ==
    LET s == BackS
        u == RSub(t, Q(1, 1))
    IN RAdd(RMul(RMul(u, u), RAdd(RMul(RAdd(s, Q(1, 1)), u), s)), Q(1, 1))

BackEase_ease_in_out(t) ==
    LET s == BackS
        u == RMul(t, Q(2, 1))
        q == RMul(s, Q(1525, 1000))
    IN IF RLt(u, Q(1, 1))
       THEN RMul(Q(1, 2),
                 RMul(RMul(u, u), RSub(RMul(RAdd(q, Q(1, 1)), u), q)))
       ELSE LET r == RSub(u, Q(2, 1))
            IN RMul(Q(1, 2),
                    RAdd(RMul(RMul(r, r),
                              RAdd(RMul(RAdd(q, Q(1, 1)), r), q)),
                         Q(2, 1)))

\* The catalog: linear(), quad(), ..., back()
Families ==
    {"linear", "quad", "cubic", "quart", "quint", "sine", "circ", "bounce",
     "elastic", "back"}

Modes == {"In", "Out", "InOut"}

ease_in(f, t) ==
    CASE f = "linear"  -> LinearEase_ease_in(t)
      [] f = "quad"    -> QuadEase_ease_in(t)
      [] f = "cubic"   -> CubicEase_ease_in(t)
      [] f = "quart"   -> QuartEase_ease_in(t)
      [] f = "quint"   -> QuintEase_ease_in(t)
      [] f = "sine"    -> SineEase_ease_in(t)
      [] f = "circ"    -> CircEase_ease_in(t)
      [] f = "bounce"  -> BounceEase_ease_in(t)
      [] f = "elastic" -> ElasticEase_ease_in(t)
      [] f = "back"    -> BackEase_ease_in(t)

ease_out(f, t) ==
    CASE f = "linear"  -> LinearEase_ease_out(t)
      [] f = "quad"    -> QuadEase_ease_out(t)
      [] f = "cubic"   -> CubicEase_ease_out(t)
      [] f = "quart"   -> QuartEase_ease_out(t)
      [] f = "quint"   -> QuintEase_ease_out(t)
      [] f = "sine"    -> SineEase_ease_out(t)
      [] f = "circ"    -> CircEase_ease_out(t)
      [] f = "bounce"  -> BounceEase_ease_out(t)
      [] f = "elastic" -> ElasticEase_ease_out(t)
      [] f = "back"    -> BackEase_ease_out(t)

ease_in_out(f, t) ==
    CASE f = "linear"  -> LinearEase_ease_in_out(t)
      [] f = "quad"    -> QuadEase_ease_in_out(t)
      [] f = "cubic"   -> CubicEase_ease_in_out(t)
      [] f = "quart"   -> QuartEase_ease_in_out(t)
      [] f = "quint"   -> QuintEase_ease_in_out(t)
      [] f = "sine"    -> SineEase_ease_in_out(t)
      [] f = "circ"    -> CircEase_ease_in_out(t)
      [] f = "bounce"  -> BounceEase_ease_in_out(t)
      [] f = "elastic" -> ElasticEase_ease_in_out(t)
      [] f = "back"    -> BackEase_ease_in_out(t)

\* Ease::ease: match mode { In => ..., Out => ..., InOut => ... }
ease(f, mode, t) ==
    CASE mode = "In"    -> ease_in(f, t)
      [] mode = "Out"   -> ease_out(f, t)
      [] mode = "InOut" -> ease_in_out(f, t)

\* The progress values t = k / Grid of 0..1 at which all three variants of
\* family f are rational numbers.
GridPoints == {Q(k, Grid) : k \in 0..Grid}

ProbePoints(f) ==
    {t \in GridPoints : /\ ease_in(f, t) # Irrational
                        /\ ease_out(f, t) # Irrational
                        /\ ease_in_out(f, t) # Irrational}

NoProbe == [family |-> "none", mode |-> "In", t |-> Q(0, 1), a |-> Q(0, 1)]

\* ------------------------------------------------------------- node state
\* Lerp::lerp composed with LinearEase: the progress t = current / duration
\* is used as alpha unchanged, whatever the mode.  The receiver (the old
\* accessed value) is not read by the source's lerp.
\* With duration = 0 the progress is current / 0.0: NaN for current = 0,
\* an infinity otherwise, and start + (end - start) * t is then NaN or an
\* infinity as well (0 * inf = NaN).
Lerp(start, end, current, duration) ==
    IF duration # 0 THEN start + ((end - start) * current) \div duration
    ELSE IF current = 0 \/ end = start THEN NaN
    ELSE IF (current > 0) = (end > start) THEN Infinity
    ELSE -Infinity

Single(start, end, mode, duration) ==
    [kind |-> "Single", start |-> start, end |-> end, current |-> 0,
     duration |-> duration, mode |-> mode]

\* data is a sequence of segments [start, end, dur, mode]; `current` is the
\* 0-based index of the source.
Multi(data) ==
    [kind |-> "Multi", data |-> data, current |-> 0, current_time |-> 0]

Sequence(tweens) == [kind |-> "Sequence", tweens |-> tweens, current |-> 0]

Parallel(tweens) == [kind |-> "Parallel", tweens |-> tweens]

Pause(duration) == [kind |-> "Pause", duration |-> duration, current |-> 0]

\* `fired` is a history field: the number of times the callback ran since
\* construction or the latest reset of this very node.
Exec == [kind |-> "Exec", executed |-> FALSE, fired |-> 0]

Repeat(tween) == [kind |-> "Repeat", tween |-> tween]

\* ---------------------------------------------------------------- remaining
RECURSIVE Remaining(_)
RECURSIVE SumRemaining(_, _)
RECURSIVE MaxRemaining(_, _)
RECURSIVE SumDur(_, _)

\* data.iter().skip(k).map(dur).fold(0, +)
SumDur(data, k) ==
    IF k >= Len(data) THEN 0 ELSE data[k + 1].dur + SumDur(data, k + 1)

SumRemaining(tweens, i) ==
    IF i > Len(tweens) THEN 0
    ELSE FAdd(Remaining(tweens[i]), SumRemaining(tweens, i + 1))

\* partial_max_by(remaining) over tweens[i..], for a non-empty rest
MaxRemaining(tweens, i) ==
    IF i >= Len(tweens) THEN Remaining(tweens[i])
    ELSE LET a == Remaining(tweens[i])
             b == MaxRemaining(tweens, i + 1)
         IN IF a >= b THEN a ELSE b

Remaining(n) ==
    CASE n.kind = "Single"   -> n.duration - n.current
      [] n.kind = "Multi"    -> SumDur(n.data, n.current) - n.current_time
      [] n.kind = "Sequence" -> SumRemaining(n.tweens, 1)
      [] n.kind = "Parallel" ->
            \* partial_max_by of no element is None, and unwrap() panics:
            \* see RemainingPanics; the 0 is no result of the source.
            IF Len(n.tweens) = 0 THEN 0 ELSE MaxRemaining(n.tweens, 1)
      [] n.kind = "Pause"    -> n.duration - n.current
      [] n.kind = "Exec"     -> 0
      [] n.kind = "Repeat"   -> Infinity
      [] n.kind = "Reverse"  -> n.duration - n.current

\* Tween::done, with the one override (Exec)
Done(n) == IF n.kind = "Exec" THEN n.executed ELSE Remaining(n) <= 0

\* Whether n.remaining() panics: Parallel::remaining unwraps the maximum of
\* an empty list; Sequence and Parallel call remaining() on every child.
RECURSIVE RemainingPanics(_)
RemainingPanics(n) ==
    CASE n.kind = "Parallel" ->
            \/ Len(n.tweens) = 0
            \/ \E i \in 1..Len(n.tweens) : RemainingPanics(n.tweens[i])
      [] n.kind = "Sequence" ->
            \E i \in 1..Len(n.tweens) : RemainingPanics(n.tweens[i])
      [] OTHER -> FALSE

\* Whether n.done() panics: the default done() calls remaining().
DonePanics(n) == n.kind # "Exec" /\ RemainingPanics(n)

\* -------------------------------------------------------------------- reset
RECURSIVE Reset(_)

Reset(n) ==
    CASE n.kind = "Single"   -> [n EXCEPT !.current = 0]
      [] n.kind = "Multi"    -> [n EXCEPT !.current = 0, !.current_time = 0]
      [] n.kind = "Sequence" ->
            [n EXCEPT !.current = 0,
                      !.tweens = [i \in 1..Len(n.tweens) |-> Reset(n.tweens[i])]]
      [] n.kind = "Parallel" ->
            [n EXCEPT !.tweens = [i \in 1..Len(n.tweens) |-> Reset(n.tweens[i])]]
      [] n.kind = "Pause"    -> [n EXCEPT !.current = 0]
      [] n.kind = "Exec"     -> [n EXCEPT !.executed = FALSE, !.fired = 0]
      [] n.kind = "Repeat"   -> [n EXCEPT !.tween = Reset(n.tween)]
      [] n.kind = "Reverse"  -> [n EXCEPT !.current = 0]

\* ------------------------------------------------------------------- update
\* The environment a call runs in and changes:
\*   val    the accessed cell,          calls  runs of the Exec callback,
\*   resets calls of self.tween.reset() made by Repeat::update (history),
\*   fault  "none", "panic" (index out of bounds) or "diverge" (a loop that
\*          did not end within MaxIter iterations).
\* Every update operator maps (node, delta, env) to [n, ret, e]: the node
\* after the call, the returned f64 and the environment after the call.
Result(n, ret, e) == [n |-> n, ret |-> ret, e |-> e]

Faulted(e) == e.fault # "none"

\* A Single::update that takes the larger of remain and delta.
SingleUpdateMax(n, delta, e) ==
    LET new    == Lerp(n.start, n.end, n.current, n.duration)
        remain == n.duration - n.current
    IN Result([n EXCEPT !.current =
                    @ + (IF remain >= delta THEN remain ELSE delta)],
              -remain, [e EXCEPT !.val = new])

SingleUpdate(n, delta, e) ==
    LET new    == Lerp(n.start, n.end, n.current, n.duration)
        remain == n.duration - n.current
    IN Result([n EXCEPT !.current = @ + Min(remain, delta)], -remain,
              [e EXCEPT !.val = new])

\* A Pause::update that adds delta without clamping it to remain.
PauseUpdateNoClamp(n, delta, e) ==
    LET remain == n.duration - n.current
    IN Result([n EXCEPT !.current = @ + delta], -remain, e)

PauseUpdate(n, delta, e) ==
    LET remain == n.duration - n.current
    IN Result([n EXCEPT !.current = @ + Min(remain, delta)], -remain, e)

ExecUpdate(n, delta, e) ==
    Result([n EXCEPT !.executed = TRUE, !.fired = @ + 1], delta,
           [e EXCEPT !.calls = @ + 1])

\* The wrap loop of Multi::update: self.data[self.current] panics once the
\* index has reached the length.
RECURSIVE MultiWrap(_, _, _)
MultiWrap(data, current, current_time) ==
    IF current >= Len(data)
    THEN [current |-> current, current_time |-> current_time, panic |-> TRUE]
    ELSE IF current_time - data[current + 1].dur > 0
         THEN MultiWrap(data, current + 1, current_time - data[current + 1].dur)
         ELSE [current |-> current, current_time |-> current_time,
               panic |-> FALSE]

MultiUpdate(n, delta, e) ==
    LET w  == MultiWrap(n.data, n.current, n.current_time + delta)
        n2 == [n EXCEPT !.current = w.current, !.current_time = w.current_time]
    IN IF w.panic
       THEN Result(n2, delta, [e EXCEPT !.fault = "panic"])
       ELSE LET seg == n.data[w.current + 1]
                new == Lerp(seg.start, seg.end, w.current_time, seg.dur)
            IN Result(n2, delta, [e EXCEPT !.val = new])

RECURSIVE Update(_, _, _)
RECURSIVE SequenceLoop(_, _, _, _)
RECURSIVE ParallelLoop(_, _, _, _, _)
RECURSIVE RepeatLoop(_, _, _, _)

\* while remain > 0 && self.current < self.tweens.len() { ... }
SequenceLoop(n, remain, e, fuel) ==
    IF Faulted(e) THEN Result(n, remain, e)
    ELSE IF ~(remain > 0 /\ n.current < Len(n.tweens)) THEN Result(n, remain, e)
    ELSE IF fuel = 0 THEN Result(n, remain, [e EXCEPT !.fault = "diverge"])
    ELSE LET r  == Update(n.tweens[n.current + 1], remain, e)
             tw == [n.tweens EXCEPT ![n.current + 1] = r.n]
             c  == IF Done(r.n) THEN n.current + 1 ELSE n.current
         IN IF ~Faulted(r.e) /\ DonePanics(r.n)
            THEN Result([n EXCEPT !.tweens = tw], r.ret,
                        [r.e EXCEPT !.fault = "panic"])
            ELSE SequenceLoop([n EXCEPT !.tweens = tw, !.current = c],
                              r.ret, r.e, fuel - 1)

SequenceUpdate(n, delta, e) == SequenceLoop(n, delta, e, MaxIter)

\* A Parallel::update that passes delta to every child unclamped.
RECURSIVE ParallelLoopNoMin(_, _, _, _, _)
ParallelLoopNoMin(n, i, delta, max_remain, e) ==
    IF Faulted(e) THEN Result(n, FSub(max_remain, delta), e)
    ELSE IF i > Len(n.tweens) THEN Result(n, FSub(max_remain, delta), e)
    ELSE IF RemainingPanics(n.tweens[i])
    THEN Result(n, FSub(max_remain, delta), [e EXCEPT !.fault = "panic"])
    ELSE LET remain == Remaining(n.tweens[i])
             m      == IF remain > max_remain THEN remain ELSE max_remain
             r      == Update(n.tweens[i], delta, e)
         IN ParallelLoopNoMin([n EXCEPT !.tweens[i] = r.n], i + 1, delta, m,
                              r.e)

\* for tw in self.tweens.iter_mut() { ... }, from child i on
ParallelLoop(n, i, delta, max_remain, e) ==
    IF Faulted(e) THEN Result(n, FSub(max_remain, delta), e)
    ELSE IF i > Len(n.tweens) THEN Result(n, FSub(max_remain, delta), e)
    ELSE IF RemainingPanics(n.tweens[i])
    THEN Result(n, FSub(max_remain, delta), [e EXCEPT !.fault = "panic"])
    ELSE LET remain == Remaining(n.tweens[i])
             m      == IF remain > max_remain THEN remain ELSE max_remain
             r      == Update(n.tweens[i], Min(remain, delta), e)
         IN ParallelLoop([n EXCEPT !.tweens[i] = r.n], i + 1, delta, m, r.e)

ParallelUpdate(n, delta, e) == ParallelLoop(n, 1, delta, 0, e)

\* A Repeat::update that resets the child as soon as it has completed.
RECURSIVE RepeatLoopEager(_, _, _, _)
RepeatLoopEager(n, remain, e, fuel) ==
    IF Faulted(e) THEN Result(n, 0, e)
    ELSE IF ~(remain > 0) THEN Result(n, 0, e)
    ELSE IF fuel = 0 THEN Result(n, 0, [e EXCEPT !.fault = "diverge"])
    ELSE LET r == Update(n.tween, remain, e)
         IN IF Faulted(r.e) THEN Result([n EXCEPT !.tween = r.n], 0, r.e)
            ELSE IF r.ret >= 0 \/ Done(r.n)
            THEN RepeatLoopEager([n EXCEPT !.tween = Reset(r.n)],
                                 IF r.ret >= 0 THEN remain
                                 ELSE FAdd(remain, r.ret),
                                 [r.e EXCEPT !.resets = @ + 1], fuel - 1)
            ELSE RepeatLoopEager([n EXCEPT !.tween = r.n],
                                 FAdd(remain, r.ret), r.e, fuel - 1)

\* while remain > 0. { ... }
RepeatLoop(n, remain, e, fuel) ==
    IF Faulted(e) THEN Result(n, 0, e)
    ELSE IF ~(remain > 0) THEN Result(n, 0, e)
    ELSE IF fuel = 0 THEN Result(n, 0, [e EXCEPT !.fault = "diverge"])
    ELSE LET r == Update(n.tween, remain, e)
         IN IF Faulted(r.e) THEN Result([n EXCEPT !.tween = r.n], 0, r.e)
            ELSE IF r.ret >= 0
            THEN RepeatLoop([n EXCEPT !.tween = Reset(r.n)], remain,
                            [r.e EXCEPT !.resets = @ + 1], fuel - 1)
            ELSE RepeatLoop([n EXCEPT !.tween = r.n], FAdd(remain, r.ret),
                            r.e, fuel - 1)

RepeatUpdate(n, delta, e) == RepeatLoop(n, delta, e, MaxIter)

\* Reverse::update: self.current is not touched.
ReverseUpdate(n, delta, e) ==
    LET r == Update(n.tween, -delta, e)
    IN Result([n EXCEPT !.tween = r.n], r.ret, r.e)

Update(n, delta, e) ==
    CASE n.kind = "Single"   -> SingleUpdate(n, delta, e)
      [] n.kind = "Multi"    -> MultiUpdate(n, delta, e)
      [] n.kind = "Sequence" -> SequenceUpdate(n, delta, e)
      [] n.kind = "Parallel" -> ParallelUpdate(n, delta, e)
      [] n.kind = "Pause"    -> PauseUpdate(n, delta, e)
      [] n.kind = "Exec"     -> ExecUpdate(n, delta, e)
      [] n.kind = "Repeat"   -> RepeatUpdate(n, delta, e)
      [] n.kind = "Reverse"  -> ReverseUpdate(n, delta, e)

\* Reverse::new runs the child to its end first.
ReverseNew(tween, e) ==
    IF RemainingPanics(tween)
    THEN [n |-> [kind |-> "Reverse", tween |-> tween, current |-> 0,
                 duration |-> 0],
          e |-> [e EXCEPT !.fault = "panic"]]
    ELSE LET rem == Remaining(tween)
             r   == Update(tween, rem, e)
         IN [n |-> [kind |-> "Reverse", tween |-> r.n, current |-> 0,
                    duration |-> rem],
             e |-> r.e]

\* ------------------------------------------------------------ construction
\* A plan is an expression of the construction API; Build evaluates it as
\* Rust does (arguments left to right, before the call), in environment e,
\* and yields [n, e].  `to` and `from` read the accessed cell.
P_from_to(start, end, mode, duration) ==
    [c |-> "from_to", start |-> start, end |-> end, mode |-> mode,
     duration |-> duration]
P_to(end, mode, duration) ==
    [c |-> "to", end |-> end, mode |-> mode, duration |-> duration]
P_from(start, mode, duration) ==
    [c |-> "from", start |-> start, mode |-> mode, duration |-> duration]
P_series(data) == [c |-> "series", data |-> data]
P_seq(tweens) == [c |-> "seq", tweens |-> tweens]
P_par(tweens) == [c |-> "par", tweens |-> tweens]
P_exec == [c |-> "exec"]
P_pause(time) == [c |-> "pause", time |-> time]
P_rep(tween) == [c |-> "rep", tween |-> tween]
P_rev(tween) == [c |-> "rev", tween |-> tween]
P_yoyo(tween) == [c |-> "yoyo", tween |-> tween]
P_delay(tw, time) == [c |-> "delay", tw |-> tw, time |-> time]

Seg(start, end, dur, mode) ==
    [start |-> start, end |-> end, dur |-> dur, mode |-> mode]

RECURSIVE Build(_, _)
RECURSIVE BuildAll(_, _, _, _)

\* vec![p1, p2, ...]: the plans ps[i..] built in order, appended to done
BuildAll(ps, i, done, e) ==
    IF i > Len(ps) THEN [ns |-> done, e |-> e]
    ELSE LET b == Build(ps[i], e)
         IN BuildAll(ps, i + 1, Append(done, b.n), b.e)

Build(p, e) ==
    CASE p.c = "from_to" ->
            [n |-> Single(p.start, p.end, p.mode, p.duration), e |-> e]
      [] p.c = "to" ->
            [n |-> Single(e.val, p.end, p.mode, p.duration), e |-> e]
      [] p.c = "from" ->
            [n |-> Single(p.start, e.val, p.mode, p.duration), e |-> e]
      [] p.c = "series" -> [n |-> Multi(p.data), e |-> e]
      [] p.c = "seq" ->
            LET b == BuildAll(p.tweens, 1, <<>>, e)
            IN [n |-> Sequence(b.ns), e |-> b.e]
      [] p.c = "par" ->
            LET b == BuildAll(p.tweens, 1, <<>>, e)
            IN [n |-> Parallel(b.ns), e |-> b.e]
      [] p.c = "exec" -> [n |-> Exec, e |-> e]
      [] p.c = "pause" -> [n |-> Pause(p.time), e |-> e]
      [] p.c = "rep" ->
            LET b == Build(p.tween, e) IN [n |-> Repeat(b.n), e |-> b.e]
      [] p.c = "rev" ->
            LET b == Build(p.tween, e) IN ReverseNew(b.n, b.e)
      [] p.c = "yoyo" ->
            \* rep(seq(vec![tween.clone(), rev(tween)]))
            LET b == Build(p.tween, e)
                r == ReverseNew(b.n, b.e)
            IN [n |-> Repeat(Sequence(<<b.n, r.n>>)), e |-> r.e]
      [] p.c = "delay" ->
            \* seq(vec![pause(time), tw])
            LET b == Build(p.tw, e)
            IN [n |-> Sequence(<<Pause(p.time), b.n>>), e |-> b.e]

\* ----------------------------------------------------- the explored trees
Durs == 1..MaxDur

SinglePlans ==
    {P_from_to(0, Span, "In", d) : d \in Durs}
        \cup {P_from(Span, "In", d) : d \in Durs}

SeriesPlans ==
    {P_series(<<Seg(0, Span, d, "In")>>) : d \in Durs}
        \cup {P_series(<<Seg(0, Span, d1, "In"), Seg(Span, 0, d2, "In")>>) :
                d1 \in Durs, d2 \in Durs}

LeafPlans ==
    SinglePlans \cup SeriesPlans \cup {P_pause(d) : d \in Durs} \cup {P_exec}

\* The leaves that are combined in pairs.
PairPlans ==
    {P_from_to(0, Span, "In", d) : d \in Durs}
        \cup {P_series(<<Seg(0, Span, d, "In")>>) : d \in Durs}
        \cup {P_pause(d) : d \in Durs} \cup {P_exec}

Level1Plans ==
    {P_seq(<<a>>) : a \in LeafPlans}
        \cup {P_seq(<<a, b>>) : a \in PairPlans, b \in PairPlans}
        \cup {P_par(<<a>>) : a \in LeafPlans}
        \cup {P_par(<<a, b>>) : a \in PairPlans, b \in PairPlans}
        \cup {P_rep(a) : a \in LeafPlans}
        \cup {P_rev(a) : a \in LeafPlans}
        \cup {P_yoyo(a) : a \in LeafPlans}
        \cup {P_delay(a, t) : a \in SinglePlans \cup {P_exec}, t \in Durs}

Level2Plans ==
    {P_seq(<<a, P_rev(a)>>) : a \in SinglePlans}
        \cup {P_rep(P_seq(<<P_exec, P_pause(d)>>)) : d \in Durs}
        \cup {P_rev(P_seq(<<P_pause(d1), P_pause(d2)>>)) :
                d1 \in Durs, d2 \in Durs}
        \cup {P_rev(P_par(<<P_pause(d1), P_pause(d2)>>)) :
                d1 \in Durs, d2 \in Durs}
        \cup {P_par(<<P_pause(d), P_seq(<<P_pause(d1), P_pause(d2)>>)>>) :
                d \in Durs, d1 \in Durs, d2 \in Durs}
        \cup {P_seq(<<P_rev(P_par(<<P_pause(d)>>))>>) : d \in Durs}
        \cup {P_seq(<<P_par(<<P_pause(d)>>)>>) : d \in Durs}
        \cup {P_yoyo(P_seq(<<P_exec, P_exec>>))}

\* series, seq and par of an empty list, and a Single of duration 0.
EmptyPlans ==
    {P_series(<<>>), P_seq(<<>>), P_par(<<>>), P_seq(<<P_par(<<>>)>>)}

ZeroPlans == {P_from_to(0, Span, "In", 0)}

Plans ==
    LeafPlans \cup Level1Plans \cup Level2Plans \cup EmptyPlans \cup ZeroPlans

\* ------------------------------------------------------------ the machine
VARIABLES
    root,     \* the tween tree the driver owns
    val,      \* the accessed cell
    calls,    \* number of runs of the Exec callback
    fault,    \* "none", "panic" or "diverge": a faulted program has stopped
    resets,   \* history: resets made by Repeat::update
    fed,      \* history: sum of the deltas since construction / latest reset
    allpos,   \* history: every delta since construction / reset was > 0
    fresh,    \* history: the driver has not called reset
    steps,    \* history: number of driver calls
    last,     \* history: the latest driver call and what it saw before it
    ret,      \* history: the f64 the latest update call returned
    root0,    \* history: the tree as it was right after construction
    probe     \* the latest call of Ease::ease and what it returned

vars ==
    <<root, val, calls, fault, resets, fed, allpos, fresh, steps, last, ret,
      root0, probe>>

Env == [val |-> val, calls |-> calls, resets |-> resets, fault |-> fault]

Env0 == [val |-> 0, calls |-> 0, resets |-> 0, fault |-> "none"]

Seen(op, delta) ==
    [op |-> op, delta |-> delta, rem |-> Remaining(root), val |-> val,
     calls |-> calls, done |-> Done(root)]

Init ==
    \E p \in Plans :
        LET b == Build(p, Env0)
        IN /\ root = b.n
           /\ val = b.e.val
           /\ calls = b.e.calls
           /\ fault = b.e.fault
           /\ resets = 0
           /\ fed = 0
           /\ allpos = TRUE
           /\ fresh = TRUE
           /\ steps = 0
           /\ last = [op |-> "new", delta |-> 0, rem |-> Remaining(b.n),
                      val |-> b.e.val, calls |-> b.e.calls,
                      done |-> Done(b.n)]
           /\ ret = 0
           /\ root0 = b.n
           /\ probe = NoProbe

\* The driver calls root.update(delta).
DoUpdate(delta) ==
    /\ fault = "none"
    /\ steps < MaxSteps
    /\ LET r == Update(root, delta, Env)
       IN /\ root' = r.n
          /\ val' = r.e.val
          /\ calls' = r.e.calls
          /\ fault' = r.e.fault
          /\ resets' = r.e.resets
          /\ ret' = r.ret
    /\ fed' = fed + delta
    /\ allpos' = (allpos /\ delta > 0)
    /\ steps' = steps + 1
    /\ last' = Seen("update", delta)
    /\ UNCHANGED <<fresh, root0, probe>>

\* The driver calls root.reset().
DoReset ==
    /\ fault = "none"
    /\ steps < MaxSteps
    /\ root' = Reset(root)
    /\ fed' = 0
    /\ allpos' = TRUE
    /\ fresh' = FALSE
    /\ steps' = steps + 1
    /\ last' = Seen("reset", 0)
    /\ UNCHANGED <<val, calls, fault, resets, ret, root0, probe>>

\* The driver calls root.remaining() or root.done().  Both are pure: a call
\* that returns changes nothing and is no step of the model; a call that
\* panics stops the program.
DoQuery ==
    /\ fault = "none"
    /\ steps < MaxSteps
    /\ RemainingPanics(root) /\ root.kind # "Exec"
    /\ fault' = "panic"
    /\ steps' = steps + 1
    /\ last' = Seen("query", 0)
    /\ UNCHANGED <<root, val, calls, resets, fed, allpos, fresh, ret, root0,
                   probe>>

Next ==
    \/ \E delta \in 0..MaxDelta : DoUpdate(delta)
    \/ DoReset
    \/ DoQuery

Spec == Init /\ [][Next]_vars

\* The catalog on its own: a caller holds one curve and calls
\* curve.ease(mode, t).
EaseInit ==
    /\ probe = NoProbe
    /\ root = Pause(1)
    /\ val = 0
    /\ calls = 0
    /\ fault = "none"
    /\ resets = 0
    /\ fed = 0
    /\ allpos = TRUE
    /\ fresh = TRUE
    /\ steps = 0
    /\ last = [op |-> "new", delta |-> 0, rem |-> 1, val |-> 0, calls |-> 0,
               done |-> FALSE]
    /\ ret = 0
    /\ root0 = Pause(1)

DoEase(f, mode, t) ==
    /\ probe' = [family |-> f, mode |-> mode, t |-> t, a |-> ease(f, mode, t)]
    /\ UNCHANGED <<root, val, calls, fault, resets, fed, allpos, fresh, steps,
                   last, ret, root0>>

EaseNext ==
    \E f \in Families, mode \in Modes :
        \E t \in ProbePoints(f) : DoEase(f, mode, t)

EaseSpec == EaseInit /\ [][EaseNext]_vars

\* ------------------------------------------------------- shapes of a tree
RECURSIVE HasReverse(_)
HasReverse(n) ==
    CASE n.kind = "Reverse" -> TRUE
      [] n.kind = "Repeat" -> HasReverse(n.tween)
      [] n.kind \in {"Sequence", "Parallel"} ->
            \E i \in 1..Len(n.tweens) : HasReverse(n.tweens[i])
      [] OTHER -> FALSE

RECURSIVE HasRepeat(_)
HasRepeat(n) ==
    CASE n.kind = "Repeat" -> TRUE
      [] n.kind = "Reverse" -> HasRepeat(n.tween)
      [] n.kind \in {"Sequence", "Parallel"} ->
            \E i \in 1..Len(n.tweens) : HasRepeat(n.tweens[i])
      [] OTHER -> FALSE

\* The largest `fired` of the Exec nodes of a tree (0 when it has none).
RECURSIVE MaxFired(_)
RECURSIVE MaxFiredOf(_, _)
MaxFiredOf(tweens, i) ==
    IF i > Len(tweens) THEN 0
    ELSE LET a == MaxFired(tweens[i])
             b == MaxFiredOf(tweens, i + 1)
         IN IF a >= b THEN a ELSE b
MaxFired(n) ==
    CASE n.kind = "Exec" -> n.fired
      [] n.kind \in {"Repeat", "Reverse"} -> MaxFired(n.tween)
      [] n.kind \in {"Sequence", "Parallel"} -> MaxFiredOf(n.tweens, 1)
      [] OTHER -> 0

IsSeqOf(n, k1, k2) ==
    /\ n.kind = "Sequence"
    /\ Len(n.tweens) = 2
    /\ n.tweens[1].kind = k1
    /\ n.tweens[2].kind = k2

\* rev(single)
IsRevSingle(n) == n.kind = "Reverse" /\ n.tween.kind = "Single"

\* yoyo(single) = rep(seq([single, rev(single)]))
IsYoyoSingle(n) ==
    /\ n.kind = "Repeat"
    /\ IsSeqOf(n.tween, "Single", "Reverse")
    /\ n.tween.tweens[2].tween.kind = "Single"

\* rep(pause(D))
IsRepPause(n) == n.kind = "Repeat" /\ n.tween.kind = "Pause"

Updated == last.op = "update" /\ fault = "none"

\* ------------------------------------------------------------------ claims

\* C1: for every finite tween node (no Repeat in the tree), in any reachable
\* state with r = remaining() >= 0, update(r) leaves the node done.
C1_UpdateRemainingMakesDone ==
    (Updated /\ ~HasRepeat(root) /\ last.rem >= 0 /\ last.delta = last.rem)
        => Done(root)

\* C2: one update(delta) of a fresh seq([pause(a), pause(b)]) with
\* a < delta <= a + b completes the first child, advances the index and
\* gives the rest of delta to the second child: remaining() = a + b - delta.
C2_SequenceCarriesLeftover ==
    (/\ Updated /\ fresh /\ steps = 1
     /\ IsSeqOf(root, "Pause", "Pause")
     /\ root.tweens[1].duration < last.delta
     /\ last.delta <= root.tweens[1].duration + root.tweens[2].duration)
        => /\ root.current = 1
           /\ Done(root.tweens[1])
           /\ Remaining(root) =
                root.tweens[1].duration + root.tweens[2].duration - last.delta

\* C3: delay(exec(f), T) driven by positive deltas: f has not run while the
\* cumulative delta is below T and has run exactly once as soon as the
\* cumulative delta has reached T.
C3_DelayedExecFiresAtT ==
    (Updated /\ fresh /\ allpos /\ IsSeqOf(root, "Pause", "Exec"))
        => /\ fed < root.tweens[1].duration => calls = 0
           /\ fed >= root.tweens[1].duration => calls = 1

\* C4: an Exec node runs its callback exactly once between construction (or
\* its latest reset) and the next reset: the first update runs it, further
\* updates do not, driven directly or as a child of a composite.
C4_ExecFiresOnce ==
    (fault = "none" /\ ~HasReverse(root))
        => /\ MaxFired(root) <= 1
           /\ (root.kind = "Exec" /\ last.op = "update") => root.fired = 1

\* C5: a linear Single of duration D > 0 fed positive deltas that sum to
\* exactly D has remaining() = 0 and the accessed value at the end bound.
C5_SingleReachesEnd ==
    (Updated /\ allpos /\ root.kind = "Single" /\ fed = root.duration)
        => Remaining(root) = 0 /\ val = root.end

\* C6: rev(Single(s, e, D, linear)) fed a total delta of D after construction
\* leaves the accessed value at the original start s.
C6_ReverseReturnsToStart ==
    (Updated /\ fresh /\ IsRevSingle(root) /\ fed = root.duration)
        => val = root.tween.start

\* C7: yoyo(Single(0, 10, duration 1, linear)) fed 0.5 four times (one tick
\* is 0.5, the duration two ticks) leaves the value at the start, not done.
C7_YoyoBackAtStart ==
    (/\ Updated /\ fresh /\ allpos /\ IsYoyoSingle(root)
     /\ root.tween.tweens[1].duration = 2
     /\ steps = 4 /\ fed = 4)
        => val = root.tween.tweens[1].start /\ ~Done(root)

\* C8 (as stated): rep(pause(D)) fed a total delta of k * D, k >= 1, in one
\* call or several, has reset its child exactly k times.
C8_RepeatResetsKTimes ==
    (Updated /\ fresh /\ IsRepPause(root) /\ fed > 0
     /\ fed % root.tween.duration = 0)
        => resets = fed \div root.tween.duration

\* C8 (amended): rep(pause(D)) fed a total delta of k * D, k >= 1, has reset
\* its child exactly k - 1 times: the reset that ends a cycle is made by the
\* next update that finds the child complete and still has time to give.
C8_RepeatResetsKMinusOneTimes ==
    (Updated /\ fresh /\ IsRepPause(root) /\ fed > 0
     /\ fed % root.tween.duration = 0)
        => resets = (fed \div root.tween.duration) - 1

\* C8 witness: three whole cycles fed, the latest call crossing a boundary.
C8_Witness ==
    /\ Updated /\ fresh /\ IsRepPause(root)
    /\ fed = 3 * root.tween.duration
    /\ last.delta > 1
    /\ resets = 2

\* C9: a Parallel with at least one child is done exactly when every child
\* is done, and one update(m) with m the largest child remaining() leaves
\* every child done.
C9_ParallelDoneIffChildrenDone ==
    (fault = "none" /\ root.kind = "Parallel" /\ Len(root.tweens) >= 1)
        => /\ Done(root) <=> \A i \in 1..Len(root.tweens) : Done(root.tweens[i])
           /\ (last.op = "update" /\ last.delta = last.rem)
                => \A i \in 1..Len(root.tweens) : Done(root.tweens[i])

\* C10 (as stated): update(0) changes neither remaining() nor the accessed
\* value and has no other observable effect (no callback runs).
C10_UpdateZeroChangesNothing ==
    (Updated /\ last.delta = 0)
        => /\ Remaining(root) = last.rem
           /\ val = last.val
           /\ calls = last.calls

\* C10 (amended): update(0) does not change remaining(), for every node kind
\* in every reachable state; it may rewrite the accessed value (Single,
\* Multi) and it runs the callback of an Exec it reaches.
C10_UpdateZeroKeepsRemaining ==
    (Updated /\ last.delta = 0) => Remaining(root) = last.rem

\* C10 witness: an update(0) of a running tree that rewrote the value.
C10_Witness ==
    /\ Updated /\ last.delta = 0
    /\ last.rem > 0
    /\ val # last.val
    /\ Remaining(root) = last.rem

\* A tree of the finite node kinds: no Repeat and no Reverse in it.
Finite(n) == ~HasRepeat(n) /\ ~HasReverse(n)

\* No empty list and no zero duration in the tree.
RECURSIVE WellFormed(_)
WellFormed(n) ==
    CASE n.kind \in {"Single", "Pause"} -> n.duration > 0
      [] n.kind = "Multi" ->
            /\ Len(n.data) >= 1
            /\ \A i \in 1..Len(n.data) : n.data[i].dur > 0
      [] n.kind \in {"Sequence", "Parallel"} ->
            /\ Len(n.tweens) >= 1
            /\ \A i \in 1..Len(n.tweens) : WellFormed(n.tweens[i])
      [] n.kind \in {"Repeat", "Reverse"} -> WellFormed(n.tween)
      [] OTHER -> TRUE

\* C11: once a finite node (Single, Pause, Multi, Exec, Sequence, Parallel)
\* reports done(), a further update(delta) with delta > 0 is a fault-free
\* no-op: no panic, remaining() unchanged, no different value written, no
\* callback run again.  (steps >= 2: the node was driven before that call.)
C11_UpdateAfterDoneIsNoOp ==
    (/\ last.op = "update" /\ last.done /\ last.delta > 0 /\ steps >= 2
     /\ Finite(root) /\ WellFormed(root))
        => /\ fault = "none"
           /\ Remaining(root) = last.rem
           /\ val = last.val
           /\ calls = last.calls

\* C12: series, seq and par of an empty list yield a node with
\* remaining() = 0 and done() true on which remaining(), done(), reset()
\* and update(delta) never fault.
C12_EmptyListsAreDegenerate ==
    (\/ root.kind = "Multi" /\ Len(root.data) = 0
     \/ root.kind \in {"Sequence", "Parallel"} /\ Len(root.tweens) = 0)
        => /\ fault = "none"
           /\ ~RemainingPanics(root)
           /\ Remaining(root) = 0
           /\ Done(root)

\* C13: for a Multi of n >= 1 segments of positive duration driven by
\* non-negative deltas, overshooting ones included, the segment index
\* stays below n and no segment past the last one is read.
C13_MultiIndexInBounds ==
    (root.kind = "Multi" /\ WellFormed(root))
        => root.current < Len(root.data) /\ fault # "panic"

\* C14: a Single of duration 0 is complete on its first update, and the
\* update writes no non-finite value (no progress elapsed / 0 is computed).
C14_ZeroDurationSingleIsGuarded ==
    (root.kind = "Single" /\ root.duration = 0 /\ last.op = "update")
        => /\ fault = "none"
           /\ Done(root)
           /\ IsFinite(val)

\* C16: Repeat.update(delta) terminates and returns 0 for every delta >= 0
\* and every child built from the library's nodes, in every reachable
\* state, and Repeat.done() is never true.
C16_RepeatUpdateTerminates ==
    (root.kind = "Repeat" /\ WellFormed(root) /\ last.op = "update")
        => /\ fault = "none"
           /\ ret = 0
           /\ ~Done(root)

\* C17: for a Single or a Pause of duration D > 0 and any delta >= 0,
\* update(delta) returns minus the remaining() it found and advances the
\* elapsed time by min(remaining before, delta), so 0 <= elapsed <= D and
\* remaining() >= 0 after any series of such updates; Pause::update does
\* not write the accessed value.
C17_LeafUpdateContract ==
    (Updated /\ root.kind \in {"Single", "Pause"} /\ root.duration > 0)
        => /\ ret = -last.rem
           /\ root.current =
                (root.duration - last.rem) + Min(last.rem, last.delta)
           /\ 0 <= root.current /\ root.current <= root.duration
           /\ Remaining(root) >= 0
           /\ root.kind = "Pause" => val = last.val

\* C17 witness: an update whose delta overshoots what was left of a Single.
C17_Witness ==
    /\ Updated /\ root.kind = "Single"
    /\ last.rem > 0 /\ last.delta > last.rem
    /\ root.current = root.duration
    /\ ret = -last.rem

\* C18: Parallel.update(delta) with delta >= 0 gives every child
\* min(child.remaining(), delta), so no child's elapsed time exceeds its
\* duration (and no child faults), and it returns the largest child
\* remaining() before the call minus delta.
C18_ParallelUpdateContract ==
    [][(/\ root.kind = "Parallel" /\ WellFormed(root)
        /\ fault = "none" /\ last'.op = "update")
          => /\ fault' = "none"
             /\ ret' = FSub(Remaining(root), last'.delta)
             /\ \A i \in 1..Len(root.tweens) :
                  /\ root'.tweens[i] =
                       Update(root.tweens[i],
                              Min(Remaining(root.tweens[i]), last'.delta),
                              Env).n
                  /\ root'.tweens[i].kind \in {"Single", "Pause"}
                       => root'.tweens[i].current <= root'.tweens[i].duration
      ]_vars

\* C18 witness: a Parallel of two pauses, updated by more than the shorter
\* one had left: both are complete and the return is max remaining - delta.
C18_Witness ==
    /\ Updated /\ root.kind = "Parallel" /\ Len(root.tweens) = 2
    /\ root.tweens[1].kind = "Pause" /\ root.tweens[2].kind = "Pause"
    /\ root.tweens[1].duration < root.tweens[2].duration
    /\ last.delta = last.rem /\ last.rem = root.tweens[2].duration
    /\ Done(root.tweens[1]) /\ Done(root.tweens[2])
    /\ ret = 0

\* C19: a Reverse tracks its own elapsed time: built over a child of total
\* duration D > 0 and fed non-negative deltas that sum to t <= D, its
\* remaining() is D - t, and it is done once t = D.
C19_ReverseTracksElapsed ==
    (/\ Updated /\ fresh /\ root.kind = "Reverse" /\ WellFormed(root)
     /\ root.duration > 0 /\ fed <= root.duration)
        => /\ Remaining(root) = root.duration - fed
           /\ fed = root.duration => Done(root)

\* The tree without its history fields.
RECURSIVE Strip(_)
Strip(n) ==
    CASE n.kind = "Exec" -> [n EXCEPT !.fired = 0]
      [] n.kind \in {"Repeat", "Reverse"} -> [n EXCEPT !.tween = Strip(@)]
      [] n.kind \in {"Sequence", "Parallel"} ->
            [n EXCEPT !.tweens = [i \in 1..Len(@) |-> Strip(@[i])]]
      [] OTHER -> n

\* C20: reset() puts the whole time-progress state of a node back to what
\* it was right after construction, for every node kind and from every
\* reachable state (Sequence: index 0 and every child reset; Reverse: the
\* child back in its completed state).
C20_ResetRestoresConstruction ==
    (last.op = "reset" /\ fault = "none" /\ WellFormed(root))
        => Strip(root) = Strip(root0)

\* C15: for every easing family of the catalog (linear, quad, cubic, quart,
\* quint, sine, circ, bounce, elastic, back), ease_in_out(0) = 0 and
\* ease_in_out(1) = 1, and ease(mode, t) returns the variant that mode
\* selects.
C15_EaseEndpointsAndDispatch ==
    probe # NoProbe =>
        /\ (probe.mode = "InOut" /\ probe.t = Q(0, 1)) => probe.a = Q(0, 1)
        /\ (probe.mode = "InOut" /\ probe.t = Q(1, 1)) => probe.a = Q(1, 1)
        /\ probe.mode = "In" => probe.a = ease_in(probe.family, probe.t)
        /\ probe.mode = "Out" => probe.a = ease_out(probe.family, probe.t)
        /\ probe.mode = "InOut"
             => probe.a = ease_in_out(probe.family, probe.t)

\* C15 witness: ease(InOut, 1) has been called on the elastic curve and has
\* returned 1.
C15_Witness ==
    /\ probe.family = "elastic" /\ probe.mode = "InOut"
    /\ probe.t = Q(1, 1) /\ probe.a = Q(1, 1)

\* C21: time conservation in Sequence: for any children (Multi and Parallel
\* included) and any delta >= 0, one Sequence.update(delta) advances its
\* children by at most delta in total: Sequence.remaining() decreases by at
\* most delta per call.
C21_SequenceConservesTime ==
    (/\ Updated /\ root.kind = "Sequence" /\ WellFormed(root)
     /\ Finite(root) /\ last.rem < Infinity)
        => last.rem - Remaining(root) <= last.delta

\* A tree with a Multi in it.
RECURSIVE HasMulti(_)
HasMulti(n) ==
    CASE n.kind = "Multi" -> TRUE
      [] n.kind \in {"Sequence", "Parallel"} ->
            \E i \in 1..Len(n.tweens) : HasMulti(n.tweens[i])
      [] n.kind \in {"Repeat", "Reverse"} -> HasMulti(n.tween)
      [] OTHER -> FALSE

\* Every Single and Pause of the tree has 0 <= elapsed <= duration.
RECURSIVE ElapsedInRange(_)
ElapsedInRange(n) ==
    CASE n.kind \in {"Single", "Pause"} ->
            0 <= n.current /\ n.current <= n.duration
      [] n.kind \in {"Sequence", "Parallel"} ->
            \A i \in 1..Len(n.tweens) : ElapsedInRange(n.tweens[i])
      [] n.kind \in {"Repeat", "Reverse"} -> ElapsedInRange(n.tween)
      [] OTHER -> TRUE

\* C22: in any tree built with the combinators (yoyo(single) and
\* seq([single, rev(single)]) among them) and driven by non-negative
\* deltas, every Single and Pause keeps 0 <= elapsed <= duration in every
\* reachable state, and with the linear curve the accessed value stays
\* between the bounds.
C22_ElapsedStaysInRange ==
    (fault = "none" /\ WellFormed(root) /\ ~HasMulti(root))
        => /\ ElapsedInRange(root)
           /\ 0 <= val /\ val <= Span

\* C23: whenever a Sequence reports done(), every one of its children is
\* done: its index has passed the last child and every Exec child has run
\* its callback since the last reset.
C23_SequenceDoneMeansChildrenDone ==
    (/\ root.kind = "Sequence" /\ fault = "none" /\ WellFormed(root)
     /\ Finite(root) /\ Done(root))
        => /\ root.current = Len(root.tweens)
           /\ \A i \in 1..Len(root.tweens) : Done(root.tweens[i])

====
